---- MODULE Spec2Model ----
(***************************************************************************)
(* The snake game of the_snake.py as a state machine.                      *)
(*                                                                         *)
(* One iteration of main()'s `while True` loop (a tick) is the sequence    *)
(*   handle_keys -> update_direction -> move (insert, trim) ->             *)
(*   apple check -> self-collision check -> draw/clock.tick                *)
(* and `pc` is the position of the single thread in that sequence.         *)
(* Coordinates are pixels, as in the source; directions are in cells.      *)
(***************************************************************************)
EXTENDS Integers, Sequences, FiniteSets

\* ------------------------------------------------------------------------
\* Constants of the playing field (the_snake.py, lines 24-35)
\* ------------------------------------------------------------------------
SCREEN_WIDTH == 640
SCREEN_HEIGHT == 480
GRID_SIZE == 20
GRID_WIDTH == SCREEN_WIDTH \div GRID_SIZE
GRID_HEIGHT == SCREEN_HEIGHT \div GRID_SIZE

UP == <<0, -1>>
DOWN == <<0, 1>>
LEFT == <<-1, 0>>
RIGHT == <<1, 0>>
Directions == {UP, DOWN, LEFT, RIGHT}

\* Python's None for next_direction (a tuple, so that it compares with one).
None == <<>>

\* ------------------------------------------------------------------------
\* Bounds of the exploration
\* ------------------------------------------------------------------------
\* Ticks of the endless game loop explored from the initial state.
MaxTicks == 8
\* Events one call of pygame.event.get() delivers at most.
MaxEvents == 2
\* randint is explored over the cells (17,12) .. (17+FoodSpan,12), the cells
\* right in front of the start cell, and the cell (6,5).
FoodSpan == 3
\* Ticks explored from an arbitrary head cell / with the full range of randint.
WrapTicks == 1
FoodTicks == 2
ScenarioTicks == 2

VARIABLES
    length,          \* snake.length
    positions,       \* snake.positions, head first
    direction,       \* snake.direction
    next_direction,  \* snake.next_direction
    apple,           \* apple.position
    pc,              \* where main() is
    polled,          \* events handle_keys has read in this call
    ticksLeft,       \* ticks still to explore
    eaten,           \* history: apples eaten since the start or the last reset
    ate,             \* history: this tick's apple check found the head on the apple
    bit,             \* history: this tick's collision check found the head in the body
    rolls,           \* history: calls of randomize_position in this tick
    event_type,      \* event.type of the event handle_keys read last in this call
    request,         \* history: the direction the last direction key of this tick asked for
    lost             \* history: a later key of this tick has overwritten a request
                     \* for a turn (neither the current direction nor its reverse)

vars == <<length, positions, direction, next_direction, apple, pc, polled,
          ticksLeft, eaten, ate, bit, rolls, event_type, request, lost>>

\* ------------------------------------------------------------------------
\* Pure parts of the classes
\* ------------------------------------------------------------------------
Cell(gx, gy) == <<gx * GRID_SIZE, gy * GRID_SIZE>>

\* Every outcome of Apple.randomize_position.
AllCells == {Cell(gx, gy) : gx \in 0..(GRID_WIDTH - 1), gy \in 0..(GRID_HEIGHT - 1)}

\* The outcomes of randomize_position explored in the long runs.
FoodCells == {Cell(17 + i, 12) : i \in 0..FoodSpan} \cup {Cell(6, 5)}

\* Snake.__init__ / Snake.reset: the start cell.
start_position ==
    <<((SCREEN_WIDTH \div 2) \div GRID_SIZE) * GRID_SIZE,
      ((SCREEN_HEIGHT \div 2) \div GRID_SIZE) * GRID_SIZE>>

\* Snake.get_head_position
get_head_position(ps) == ps[1]

\* positions[1:]
Rest(ps) == {ps[i] : i \in 2..Len(ps)}

\* handle_keys, one KEYDOWN/other event: the pending direction afterwards.
Events == {"QUIT", "K_UP", "K_w", "K_DOWN", "K_s", "K_LEFT", "K_a",
           "K_RIGHT", "K_d", "K_SPACE", "KEYUP"}

\* handle_keys that keeps the first request of a poll.
key_direction_first_wins(e, nd) ==
    IF nd # None THEN nd
    ELSE CASE e \in {"K_UP", "K_w"} -> UP
           [] e \in {"K_DOWN", "K_s"} -> DOWN
           [] e \in {"K_LEFT", "K_a"} -> LEFT
           [] e \in {"K_RIGHT", "K_d"} -> RIGHT
           [] OTHER -> nd

key_direction(e, nd) ==
    CASE e \in {"K_UP", "K_w"} -> UP
      [] e \in {"K_DOWN", "K_s"} -> DOWN
      [] e \in {"K_LEFT", "K_a"} -> LEFT
      [] e \in {"K_RIGHT", "K_d"} -> RIGHT
      [] OTHER -> nd

\* The keys handle_keys maps to a direction.
DirectionKeys == {e \in Events : key_direction(e, None) # None}

\* event.type of an event; a key stands for its KEYDOWN event.
type_of(e) == IF e \in {"QUIT", "KEYUP"} THEN e ELSE "KEYDOWN"

\* The value of event_type outside the loop over the events.
NoEvent == "none"

\* (-cur_dx, -cur_dy), line 170.
Opposite(dir) == <<-dir[1], -dir[2]>>

\* update_direction without the test for a reversal.
update_direction_no_guard(dir, nd) ==
    IF nd = None THEN [direction |-> dir, next_direction |-> nd]
    ELSE [direction |-> nd, next_direction |-> None]

\* update_direction that leaves an accepted request pending.
update_direction_keeps_request(dir, nd) ==
    IF nd = None THEN [direction |-> dir, next_direction |-> nd]
    ELSE IF nd = Opposite(dir) THEN [direction |-> dir, next_direction |-> None]
    ELSE [direction |-> nd, next_direction |-> nd]

\* Snake.update_direction: direction and next_direction afterwards.
update_direction(dir, nd) ==
    IF nd = None THEN [direction |-> dir, next_direction |-> nd]
    ELSE IF nd = Opposite(dir) THEN [direction |-> dir, next_direction |-> None]
    ELSE [direction |-> nd, next_direction |-> None]

\* The wrap of x that re-enters one cell too far right.
wrap_x_past_edge(new_x) ==
    IF new_x < 0 THEN SCREEN_WIDTH
    ELSE IF new_x >= SCREEN_WIDTH THEN 0
    ELSE new_x

\* The wrap of x that handles the right edge only.
wrap_x_right_only(new_x) ==
    IF new_x >= SCREEN_WIDTH THEN 0 ELSE new_x

\* The wrap of y with > for >= at the bottom edge.
wrap_y_strict(new_y) ==
    IF new_y < 0 THEN SCREEN_HEIGHT - GRID_SIZE
    ELSE IF new_y > SCREEN_HEIGHT THEN 0
    ELSE new_y

\* Snake.move, lines 188-205: the new head.
wrap_x(new_x) ==
    IF new_x < 0 THEN SCREEN_WIDTH - GRID_SIZE
    ELSE IF new_x >= SCREEN_WIDTH THEN 0
    ELSE new_x

wrap_y(new_y) ==
    IF new_y < 0 THEN SCREEN_HEIGHT - GRID_SIZE
    ELSE IF new_y >= SCREEN_HEIGHT THEN 0
    ELSE new_y

\* The new head with the direction taken for pixels, not cells.
new_head_in_pixels(head, dir) ==
    <<wrap_x(head[1] + dir[1]), wrap_y(head[2] + dir[2])>>

new_head(head, dir) ==
    <<wrap_x(head[1] + dir[1] * GRID_SIZE), wrap_y(head[2] + dir[2] * GRID_SIZE)>>

\* The trim with >= for >.
pop_tail_at_length(ps, len) ==
    IF Len(ps) >= len THEN SubSeq(ps, 1, Len(ps) - 1) ELSE ps

\* The trim that lets the list run one ahead of length.
pop_tail_late(ps, len) ==
    IF Len(ps) > len + 1 THEN SubSeq(ps, 1, Len(ps) - 1) ELSE ps

\* Snake.move, lines 211-212: pop the tail if the list is longer than length.
pop_tail(ps, len) ==
    IF Len(ps) > len THEN SubSeq(ps, 1, Len(ps) - 1) ELSE ps

\* main, line 315 and line 321: the two tests of a tick.
on_apple(ps, a) == get_head_position(ps) = a
bites_itself(ps) == get_head_position(ps) \in Rest(ps)

\* An apple that is worth two cells.
grow_by_two(len) == len + 2

\* main, line 316: snake.length += 1
grow(len) == len + 1

\* randomize_position that re-rolls until the cell is free of the snake.
randomize_position_free(cells) == cells \ {positions[i] : i \in 1..Len(positions)}

\* Apple.randomize_position with randint drawing from `cells`: the outcomes.
randomize_position(cells) == cells

\* Snake.__init__: the fields of a new snake.
snake_init ==
    [length |-> 1, positions |-> <<start_position>>, direction |-> RIGHT,
     next_direction |-> None]

\* reset that forgets to set length.
reset_keeps_length ==
    [length |-> length, positions |-> <<start_position>>, direction |-> RIGHT,
     next_direction |-> None]

\* reset that forgets to set positions.
reset_keeps_positions ==
    [length |-> 1, positions |-> positions, direction |-> RIGHT,
     next_direction |-> None]

\* reset that forgets to set direction.
reset_keeps_direction ==
    [length |-> 1, positions |-> <<start_position>>, direction |-> direction,
     next_direction |-> None]

\* Snake.reset: the fields afterwards.
reset ==
    [length |-> 1, positions |-> <<start_position>>, direction |-> RIGHT,
     next_direction |-> None]

\* ------------------------------------------------------------------------
\* Initial states
\* ------------------------------------------------------------------------
\* main() has constructed Snake() and Apple() and enters the loop.
Boot ==
    /\ pc = "handle_keys"
    /\ polled = 0
    /\ ate = FALSE
    /\ bit = FALSE
    /\ rolls = 1
    /\ event_type = NoEvent
    /\ request = None
    /\ lost = FALSE

Init ==
    /\ length = snake_init.length
    /\ positions = snake_init.positions
    /\ direction = snake_init.direction
    /\ next_direction = snake_init.next_direction
    /\ apple \in randomize_position(FoodCells)
    /\ eaten = 0
    /\ Boot
    /\ ticksLeft = MaxTicks

\* As Init, with randint drawing from the whole grid.
InitFood ==
    /\ length = snake_init.length
    /\ positions = snake_init.positions
    /\ direction = snake_init.direction
    /\ next_direction = snake_init.next_direction
    /\ apple \in randomize_position(AllCells)
    /\ eaten = 0
    /\ Boot
    /\ ticksLeft = FoodTicks

\* A tick boundary of a game in which the snake has not eaten yet: a snake of
\* one cell can have been steered to any cell, arriving in any direction; the
\* apple is where the construction put it, on a cell the snake has not visited.
InitAnyCell ==
    /\ length = 1
    /\ positions \in {<<c>> : c \in AllCells}
    /\ direction \in Directions
    /\ next_direction = None
    /\ apple \in randomize_position(FoodCells) \ {positions[1]}
    /\ eaten = 0
    /\ Boot
    /\ ticksLeft = WrapTicks

\* A tick boundary of a game in which the snake has just eaten its first
\* apple: on any cell, having arrived in any direction, its one cell still to
\* grow to two; the apple has been relocated.
InitGrown ==
    /\ length = 2
    /\ positions \in {<<c>> : c \in AllCells}
    /\ direction \in Directions
    /\ next_direction = None
    /\ apple \in randomize_position(FoodCells)
    /\ eaten = 1
    /\ pc = "handle_keys"
    /\ polled = 0
    /\ ate = TRUE
    /\ bit = FALSE
    /\ rolls = 1
    /\ event_type = NoEvent
    /\ request = None
    /\ lost = FALSE
    /\ ticksLeft = WrapTicks

\* A tick boundary of a game in which the snake has eaten twice and runs along
\* row 5 towards the apple on cell (6,5).
InitScenario ==
    /\ length = 3
    /\ positions = <<Cell(5, 5), Cell(4, 5), Cell(3, 5)>>
    /\ direction = RIGHT
    /\ next_direction = None
    /\ apple = Cell(6, 5)
    /\ eaten = 2
    /\ Boot
    /\ ticksLeft = ScenarioTicks

\* ------------------------------------------------------------------------
\* The steps of a tick
\* ------------------------------------------------------------------------
\* handle_keys without the test for QUIT: the event is skipped like any other.
HandleEvent_quit_ignored ==
    /\ pc = "handle_keys"
    /\ ticksLeft > 0
    /\ polled < MaxEvents
    /\ \E e \in Events :
         /\ next_direction' = key_direction(e, next_direction)
         /\ polled' = polled + 1
         /\ pc' = pc
         /\ event_type' = type_of(e)
         /\ request' = IF e \in DirectionKeys THEN key_direction(e, None)
                        ELSE request
         /\ lost' = (lost \/ (/\ e \in DirectionKeys
                                /\ request # None
                                /\ request # direction
                                /\ request # Opposite(direction)))
    /\ UNCHANGED <<length, positions, direction, apple, ticksLeft, eaten, ate,
                   bit, rolls>>

\* handle_keys: one iteration of the loop over pygame.event.get().
HandleEvent ==
    /\ pc = "handle_keys"
    /\ ticksLeft > 0
    /\ polled < MaxEvents
    /\ \E e \in Events :
         IF e = "QUIT"
         THEN /\ pc' = "exited"
              /\ event_type' = type_of(e)
              /\ UNCHANGED <<next_direction, polled, request, lost>>
         ELSE /\ next_direction' = key_direction(e, next_direction)
              /\ polled' = polled + 1
              /\ pc' = pc
              /\ event_type' = type_of(e)
              /\ request' = IF e \in DirectionKeys THEN key_direction(e, None)
                             ELSE request
              /\ lost' = (lost \/ (/\ e \in DirectionKeys
                                     /\ request # None
                                     /\ request # direction
                                     /\ request # Opposite(direction)))
    /\ UNCHANGED <<length, positions, direction, apple, ticksLeft, eaten, ate,
                   bit, rolls>>

\* handle_keys returns: the event list is exhausted.
HandleKeysReturn ==
    /\ pc = "handle_keys"
    /\ ticksLeft > 0
    /\ pc' = "update_direction"
    /\ polled' = 0
    /\ event_type' = NoEvent
    /\ UNCHANGED <<length, positions, direction, next_direction, apple,
                   ticksLeft, eaten, ate, bit, rolls, request, lost>>

\* main, step 2. The history of the previous tick's checks ends here.
UpdateDirection ==
    /\ pc = "update_direction"
    /\ direction' = update_direction(direction, next_direction).direction
    /\ next_direction' = update_direction(direction, next_direction).next_direction
    /\ pc' = "move"
    /\ ate' = FALSE
    /\ bit' = FALSE
    /\ rolls' = 0
    /\ request' = None
    /\ lost' = FALSE
    /\ UNCHANGED <<length, positions, apple, polled, ticksLeft, eaten, event_type>>

\* move(), up to and including positions.insert(0, new_head).
MoveInsert ==
    /\ pc = "move"
    /\ positions' = <<new_head(get_head_position(positions), direction)>> \o positions
    /\ pc' = "trim"
    /\ UNCHANGED <<length, direction, next_direction, apple, polled, ticksLeft,
                   eaten, ate, bit, rolls, event_type, request, lost>>

\* move(), the trim, and its return.
MoveTrim ==
    /\ pc = "trim"
    /\ positions' = pop_tail(positions, length)
    /\ pc' = "check_apple"
    /\ UNCHANGED <<length, direction, next_direction, apple, polled, ticksLeft,
                   eaten, ate, bit, rolls, event_type, request, lost>>

\* main, step 4, with randint drawing from `cells`.
CheckApple(cells) ==
    /\ pc = "check_apple"
    /\ IF on_apple(positions, apple)
       THEN /\ length' = grow(length)
            /\ apple' \in randomize_position(cells)
            /\ eaten' = eaten + 1
            /\ ate' = TRUE
            /\ rolls' = rolls + 1
       ELSE UNCHANGED <<length, apple, eaten, ate, rolls>>
    /\ pc' = "check_self"
    /\ UNCHANGED <<positions, direction, next_direction, polled, ticksLeft, bit,
                   event_type, request, lost>>

\* The collision check written as the elif of the apple check.
CheckSelf_elif(cells) ==
    /\ pc = "check_self"
    /\ IF ~ate /\ bites_itself(positions)
       THEN /\ length' = reset.length
            /\ positions' = reset.positions
            /\ direction' = reset.direction
            /\ next_direction' = reset.next_direction
            /\ apple' \in randomize_position(cells)
            /\ eaten' = 0
            /\ bit' = TRUE
            /\ rolls' = rolls + 1
       ELSE UNCHANGED <<length, positions, direction, next_direction, apple,
                        eaten, bit, rolls>>
    /\ pc' = "handle_keys"
    /\ ticksLeft' = ticksLeft - 1
    /\ UNCHANGED <<polled, ate, event_type, request, lost>>

\* The collision check that ends the game instead of resetting the snake.
CheckSelf_game_over(cells) ==
    /\ pc = "check_self"
    /\ IF bites_itself(positions)
       THEN /\ pc' = "game_over"
            /\ bit' = TRUE
            /\ UNCHANGED ticksLeft
       ELSE /\ pc' = "handle_keys"
            /\ ticksLeft' = ticksLeft - 1
            /\ UNCHANGED bit
    /\ UNCHANGED <<length, positions, direction, next_direction, apple, eaten,
                   rolls, polled, ate, event_type, request, lost>>

\* main, step 5, with randint drawing from `cells`; then draw, display.update
\* and clock.tick, which change nothing of the game.
CheckSelf(cells) ==
    /\ pc = "check_self"
    /\ IF bites_itself(positions)
       THEN /\ length' = reset.length
            /\ positions' = reset.positions
            /\ direction' = reset.direction
            /\ next_direction' = reset.next_direction
            /\ apple' \in randomize_position(cells)
            /\ eaten' = 0
            /\ bit' = TRUE
            /\ rolls' = rolls + 1
       ELSE UNCHANGED <<length, positions, direction, next_direction, apple,
                        eaten, bit, rolls>>
    /\ pc' = "handle_keys"
    /\ ticksLeft' = ticksLeft - 1
    /\ UNCHANGED <<polled, ate, event_type, request, lost>>

Next ==
    \/ HandleEvent
    \/ HandleKeysReturn
    \/ UpdateDirection
    \/ MoveInsert
    \/ MoveTrim
    \/ CheckApple(FoodCells)
    \/ CheckSelf(FoodCells)

\* The same loop with randint drawing from the whole grid.
NextFood ==
    \/ HandleEvent
    \/ HandleKeysReturn
    \/ UpdateDirection
    \/ MoveInsert
    \/ MoveTrim
    \/ CheckApple(AllCells)
    \/ CheckSelf(AllCells)

\* The game from its construction.
Spec == Init /\ [][Next]_vars

\* The steps main() takes by itself: all but the reading of an event.
Running ==
    \/ HandleKeysReturn
    \/ UpdateDirection
    \/ MoveInsert
    \/ MoveTrim
    \/ CheckApple(FoodCells)
    \/ CheckSelf(FoodCells)

\* The game from its construction; the single thread goes on: the event list
\* of a poll is finite and draw, display.update and clock.tick return.
SpecLive == Init /\ [][Next]_vars /\ WF_vars(Running)

\* The game from its construction, food on any cell.
SpecFood == InitFood /\ [][NextFood]_vars

\* The game from a tick boundary with the one-cell snake anywhere.
SpecWrap == InitAnyCell /\ [][Next]_vars

\* The game from its construction, and from a tick boundary with a snake
\* about to grow to two cells anywhere.
SpecChain == (Init \/ InitGrown) /\ [][Next]_vars

\* The game from the tick boundary of the length-3 scenario.
SpecScenario == InitScenario /\ [][Next]_vars

\* ------------------------------------------------------------------------
\* Properties
\* ------------------------------------------------------------------------
\* A pixel position that is the corner of a cell of the grid.
InGrid(p) ==
    /\ p[1] \in 0..(SCREEN_WIDTH - 1)
    /\ p[2] \in 0..(SCREEN_HEIGHT - 1)
    /\ p[1] % GRID_SIZE = 0
    /\ p[2] % GRID_SIZE = 0
    /\ p[1] \div GRID_SIZE \in 0..31
    /\ p[2] \div GRID_SIZE \in 0..23

\* C1: in every state the head is on a cell of the grid (x a multiple of
\* GRID_SIZE in [0, SCREEN_WIDTH), y likewise), also when move() has wrapped it.
C1_HeadInGrid == InGrid(positions[1])

\* C1 witness: move() has just wrapped the head from the last column to column 0.
C1_Witness ==
    /\ pc = "trim"
    /\ positions[2][1] = SCREEN_WIDTH - GRID_SIZE
    /\ direction = RIGHT
    /\ positions[1][1] = 0

\* C2: when update_direction runs with the exact opposite of the current
\* direction pending, it changes neither direction, positions nor length and
\* drops the request.
C2_OppositeIgnored ==
    [][(pc = "update_direction" /\ next_direction = <<-direction[1], -direction[2]>>)
         => /\ direction' = direction
            /\ positions' = positions
            /\ length' = length
            /\ next_direction' = None]_vars

\* C2 witness: the tick after a reset, a one-cell snake heading RIGHT, LEFT pending.
C2_Witness ==
    /\ pc = "update_direction"
    /\ bit
    /\ length = 1
    /\ direction = RIGHT
    /\ next_direction = LEFT

\* C3: length is 1 plus the number of apples eaten since the start or the
\* last reset; an apple check that finds the head on the apple adds exactly
\* one to length, and no other step makes length larger.
C3_LengthCountsApples ==
    /\ length = 1 + eaten
    /\ [][/\ length' = 1 + eaten'
          /\ (pc = "check_apple" /\ positions[1] = apple) => length' = length + 1
          /\ length' > length => (pc = "check_apple" /\ positions[1] = apple)]_vars

\* C3 witness: three apples eaten in a row, length 4.
C3_Witness == pc = "handle_keys" /\ eaten = 3 /\ length = 4

\* C4: a collision check that finds the head among positions[1:] leaves the
\* snake in its initial state (length 1, the start cell (320,240), RIGHT,
\* nothing pending) and has relocated the apple, whatever the length was.
C4_CollisionResets ==
    [][(pc = "check_self" /\ \E i \in 2..Len(positions) : positions[i] = positions[1])
         => /\ length' = 1
            /\ positions' = << <<320, 240>> >>
            /\ positions' = <<Cell(16, 12)>>
            /\ direction' = RIGHT
            /\ next_direction' = None
            /\ rolls' = rolls + 1
            /\ InGrid(apple')
            /\ pc' = "handle_keys"]_vars

\* C4 witness: the tick boundary after a collision of a snake of length 5.
C4_Witness == pc = "handle_keys" /\ bit /\ length = 1 /\ rolls >= 1

\* C5 as stated: from the left edge (x = 0) heading RIGHT, move() puts the
\* head on the last column, y unchanged.
C5_Original ==
    (pc = "trim" /\ positions[2][1] = 0 /\ direction = RIGHT)
        => /\ positions[1][1] = SCREEN_WIDTH - GRID_SIZE
           /\ positions[1][2] = positions[2][2]

\* C5 amended: from the left edge (x = 0) heading LEFT, move() puts the head
\* on the last column, y unchanged; heading RIGHT it puts it on column 1.
C5_LeftEdge ==
    (pc = "trim" /\ positions[2][1] = 0)
        => /\ direction = LEFT =>
                positions[1] = <<SCREEN_WIDTH - GRID_SIZE, positions[2][2]>>
           /\ direction = RIGHT => positions[1] = <<GRID_SIZE, positions[2][2]>>

\* C5 witness: move() has just taken the head from column 0 to the last column.
C5_Witness ==
    /\ pc = "trim"
    /\ positions[2][1] = 0
    /\ direction = LEFT
    /\ positions[1][1] = (GRID_WIDTH - 1) * GRID_SIZE

\* C6: from [(5,5),(4,5),(3,5)] heading RIGHT with the apple on (6,5), the
\* tick that keeps heading RIGHT ends with the head on (6,5), a body of 3
\* cells and length 4; the move of the next tick leaves 4 cells in the body,
\* the old tail (4,5) among them.
C6_Scenario ==
    /\ (ticksLeft = ScenarioTicks /\ pc = "check_self" /\ direction = RIGHT)
          => /\ positions = <<Cell(6, 5), Cell(5, 5), Cell(4, 5)>>
             /\ length = 4
    /\ (ticksLeft = ScenarioTicks - 1 /\ pc = "check_apple" /\ positions[2] = Cell(6, 5))
          => /\ Len(positions) = 4
             /\ length = 4
             /\ SubSeq(positions, 2, 4) = <<Cell(6, 5), Cell(5, 5), Cell(4, 5)>>

\* C6 witness: the second tick's move has returned with 4 cells in the body.
C6_Witness ==
    /\ ticksLeft = ScenarioTicks - 1
    /\ pc = "check_apple"
    /\ positions = <<Cell(7, 5), Cell(6, 5), Cell(5, 5), Cell(4, 5)>>

\* C7: the head move() inserts is the old head plus the direction, modulo the
\* grid's width and height, in cells.
C7_WrapIsModulo ==
    pc = "trim" =>
        positions[1] =
            Cell(((positions[2][1] \div GRID_SIZE) + direction[1]) % GRID_WIDTH,
                 ((positions[2][2] \div GRID_SIZE) + direction[2]) % GRID_HEIGHT)

\* C7 witness: move() has just wrapped the head from the top row to the bottom row.
C7_Witness ==
    /\ pc = "trim"
    /\ positions[2][2] = 0
    /\ direction = UP
    /\ positions[1][2] = SCREEN_HEIGHT - GRID_SIZE

\* C8: update_direction runs between handle_keys and move, once; it makes a
\* pending direction that is no reversal the current one, and leaves nothing
\* pending; move advances the head by the direction so latched; the direction
\* changes in no other step but a reset.
C8_DirectionLatch ==
    [][/\ pc = "update_direction" =>
            /\ pc' = "move"
            /\ next_direction' = None
            /\ direction' =
                 IF next_direction # None
                    /\ next_direction # <<-direction[1], -direction[2]>>
                 THEN next_direction ELSE direction
       /\ pc' = "update_direction" => pc = "handle_keys"
       /\ pc' = "move" => pc = "update_direction"
       /\ pc = "move" =>
            /\ pc' = "trim"
            /\ direction' = direction
            /\ positions'[1] =
                 Cell(((positions[1][1] \div GRID_SIZE) + direction[1]) % GRID_WIDTH,
                      ((positions[1][2] \div GRID_SIZE) + direction[2]) % GRID_HEIGHT)
       /\ pc' \in {"move", "trim", "check_apple", "check_self"} => next_direction' = None
       /\ (pc' = "handle_keys" /\ polled' = 0) => next_direction' = None
       /\ direction' # direction => pc \in {"update_direction", "check_self"}]_vars

\* C8 witness: in the first tick a request for DOWN has been latched, move is next.
C8_Witness ==
    /\ pc = "move"
    /\ ticksLeft = MaxTicks
    /\ direction = DOWN
    /\ next_direction = None

\* C9: the apple is always on a cell of the grid, and an apple check that
\* finds the head on the apple can put the apple on every cell of the grid,
\* the snake's cells included.
C9_FoodAnywhere ==
    /\ InGrid(apple)
    /\ (pc = "check_apple" /\ positions[1] = apple)
          => \A c \in AllCells : ENABLED (CheckApple(AllCells) /\ apple' = c)

\* C9 witness: the apple has just been relocated onto a cell of the body.
C9_Witness ==
    /\ pc = "check_self"
    /\ ate
    /\ \E i \in 2..Len(positions) : positions[i] = apple

\* C10: the body is never more than one cell longer than length, and is no
\* longer than length outside move(), between the insert and the trim.
C10_BodyWithinLength ==
    /\ Len(positions) <= length + 1
    /\ pc # "trim" => Len(positions) <= length

\* C10 witness: inside move(), after the insert, the body is one longer than length.
C10_Witness == pc = "trim" /\ Len(positions) = length + 1 /\ length >= 2

\* The step main() takes after each step of a tick that is not handle_keys.
StepAfter ==
    [p \in {"update_direction", "move", "trim", "check_apple", "check_self"} |->
        CASE p = "update_direction" -> "move"
          [] p = "move" -> "trim"
          [] p = "trim" -> "check_apple"
          [] p = "check_apple" -> "check_self"
          [] p = "check_self" -> "handle_keys"]

\* C11: reading a QUIT event, and nothing else, ends the process; that
\* happens inside handle_keys only and leaves the snake and the apple as they
\* were, so none of the tick's later steps has run; a tick past handle_keys
\* runs its steps in order to the end; once exited, no step is taken.
C11_QuitExits ==
    [][/\ pc # "exited"
       /\ (event_type' = "QUIT") <=> (pc' = "exited")
       /\ pc' = "exited" =>
            /\ pc = "handle_keys"
            /\ UNCHANGED <<length, positions, direction, apple, eaten, ticksLeft>>
       /\ pc \in DOMAIN StepAfter => pc' = StepAfter[pc]]_vars

\* C11 witness: the process has exited on a QUIT read after a key of the same
\* poll, in a tick after the first.
C11_Witness ==
    /\ pc = "exited"
    /\ event_type = "QUIT"
    /\ polled = 1
    /\ next_direction # None
    /\ ticksLeft < MaxTicks

\* C12: as long as no QUIT has been read, main() has a step to take (there
\* is no state in which the game is over, also after a reset), and unless a
\* QUIT is read one tick follows the other until all the ticks explored have
\* taken place.
C12_NeverHalts ==
    /\ []((pc # "exited" /\ ticksLeft > 0) => ENABLED Running)
    /\ <>(ticksLeft = 0 \/ pc = "exited")

\* C12 witness: the tick after a reset is under way, an event has been read.
C12_Witness ==
    /\ pc = "handle_keys"
    /\ bit
    /\ polled = 1
    /\ event_type = "KEYDOWN"
    /\ ticksLeft > 0

\* C13: the apple check comes before the collision check; when the head is
\* on the apple and on a cell of the body, the apple check adds one to length
\* and the collision check of the same tick resets the snake to length 1,
\* the apple having been relocated twice.
C13_EatThenBite ==
    [][/\ pc' = "check_self" => pc = "check_apple"
       /\ (/\ pc = "check_apple"
           /\ positions[1] = apple
           /\ \E i \in 2..Len(positions) : positions[i] = positions[1])
            => /\ pc' = "check_self"
               /\ length' = length + 1
               /\ positions' = positions
               /\ ate'
       /\ (/\ pc = "check_self"
           /\ ate
           /\ \E i \in 2..Len(positions) : positions[i] = positions[1])
            => /\ pc' = "handle_keys"
               /\ length' = 1
               /\ eaten' = 0
               /\ positions' = <<start_position>>
               /\ bit'
               /\ rolls' = 2]_vars

\* C13 witness: a tick has ended in which the snake ate and bit itself.
C13_Witness ==
    /\ pc = "handle_keys"
    /\ ate
    /\ bit
    /\ rolls = 2
    /\ length = 1
    /\ positions = <<start_position>>

\* C14: of the direction keys read in one poll the last one alone is pending
\* when handle_keys returns; update_direction decides by it: if it is the
\* reversal of the current direction the direction stays, although an
\* earlier key of the poll asked for a turn to the side; otherwise it becomes
\* the direction.
C14_LastKeyWins ==
    [][/\ (pc' \in {"handle_keys", "update_direction"} /\ request' # None)
            => next_direction' = request'
       /\ (pc = "update_direction" /\ lost /\ request = <<-direction[1], -direction[2]>>)
            => /\ direction' = direction
               /\ next_direction' = None
       /\ (pc = "update_direction" /\ lost /\ request # <<-direction[1], -direction[2]>>)
            => direction' = request]_vars

\* C14 witness: update_direction is about to run with a reversal pending that
\* has overwritten a request for a turn.
C14_Witness ==
    /\ pc = "update_direction"
    /\ lost
    /\ request = <<-direction[1], -direction[2]>>
    /\ next_direction = request
    /\ Len(positions) > 1

\* C15: when move() has returned with the head on a cell of positions[1:],
\* length is at least 5: a snake of length 4 or less never bites itself.
C15_NoBiteBelowFive ==
    pc \in {"check_apple", "check_self"} =>
        ((\E i \in 2..Len(positions) : positions[i] = positions[1]) => length >= 5)

\* C15 witness: inside move() a snake of length 4 has put its head on the cell
\* of its tail, which the trim is about to remove.
C15_Witness ==
    /\ pc = "trim"
    /\ length = 4
    /\ Len(positions) = 5
    /\ positions[1] = positions[5]

\* C16: after the collision check, that is in the state that is drawn and
\* that the next tick starts from, no cell is twice in positions.
C16_CellsDistinct ==
    pc \in {"handle_keys", "update_direction", "move"} =>
        \A i, j \in 1..Len(positions) : i # j => positions[i] # positions[j]

\* C16 witness: a tick has ended with a body of 5 cells whose head is next to
\* its fourth cell, one turn from biting.
C16_Witness ==
    /\ pc = "handle_keys"
    /\ polled = 0
    /\ Len(positions) = 5
    /\ \E d \in Directions : new_head(positions[1], d) = positions[4]

\* Two pixel positions one cell apart along one axis, modulo the grid.
Adjacent(p, q) ==
    LET dx == ((p[1] - q[1]) \div GRID_SIZE) % GRID_WIDTH
        dy == ((p[2] - q[2]) \div GRID_SIZE) % GRID_HEIGHT
    IN  /\ (p[1] - q[1]) % GRID_SIZE = 0
        /\ (p[2] - q[2]) % GRID_SIZE = 0
        /\ \/ dx \in {1, GRID_WIDTH - 1} /\ dy = 0
           \/ dx = 0 /\ dy \in {1, GRID_HEIGHT - 1}

\* C17: in every state each cell of positions and the one after it are one
\* cell apart along exactly one axis, modulo the width and height of the grid.
C17_BodyIsChain ==
    \A i \in 1..(Len(positions) - 1) : Adjacent(positions[i], positions[i + 1])

\* C17 witness: a tick has ended with a body of two cells, the head on column
\* 0 and the second cell on the last column.
C17_Witness ==
    /\ pc = "handle_keys"
    /\ Len(positions) = 2
    /\ positions[1][1] = 0
    /\ positions[2][1] = SCREEN_WIDTH - GRID_SIZE

\* C18: right after every move() the body has exactly length cells; at every
\* tick boundary it has length or length - 1 cells, the latter only when the
\* tick just ended ate the apple; length is never more than one ahead of the body.
C18_BodyMeetsLength ==
    /\ pc = "check_apple" => Len(positions) = length
    /\ pc = "handle_keys" => /\ Len(positions) \in {length, length - 1}
                             /\ Len(positions) = length - 1 => ate
    /\ length - Len(positions) <= 1

\* C18 witness: the first two ticks of a game both ate the apple, and the
\* body is one cell short of length at the tick boundary.
C18_Witness ==
    /\ pc = "handle_keys"
    /\ ate
    /\ eaten = 2
    /\ ticksLeft = MaxTicks - 2
    /\ Len(positions) = length - 1

====
